---- MODULE Spec2Model ----
(***************************************************************************)
(* Model of the expert-panel-simulator core:                               *)
(*   utils/llm_provider.py      TokenUsage, the two provider adapters and  *)
(*                              LLMManager (resolution, accounting,        *)
(*                              analytics)                                 *)
(*   expert_panel_simulator.py  ExpertPanelSimulator.run_simulation and    *)
(*                              the group chat it configures               *)
(*                                                                         *)
(* Units.  Token counts are kept in tenths of a token, because the         *)
(* Anthropic adapter's count_tokens returns len(text.split()) * 1.3, which *)
(* is not an integer.  Prices are kept in 1e-5 USD per 1000 tokens, so a   *)
(* cost is (tenths of a token) * price, in 1e-9 USD.  A text is a sequence *)
(* over {"w", " "}: a word character or a blank.                           *)
(***************************************************************************)
EXTENDS Integers, Sequences, FiniteSets, TLC

(* ---------------------------------------------------------------------- *)
(* Bounds                                                                  *)
(* ---------------------------------------------------------------------- *)
MaxCalls == 3
MaxThreads == 2
MaxConcCalls == 2
MaxExperts == 3
MaxRoundsCfg == 6
MaxMsgs == 2
MaxTok == 1
MaxReads == 2
MaxElapsed == 150

(* ---------------------------------------------------------------------- *)
(* Program constants                                                       *)
(* ---------------------------------------------------------------------- *)
TenthsPerToken == 10
TenthsPerWord == 13
DefaultMaxRounds == 8
SecondsPerMinute == 60
\* costs are kept in 1e-9 USD; round(x, 4) leaves multiples of 1e-4 USD
CostUnitsPerRounded == 100000
\* total_tokens / 1000, with tokens kept in tenths
TenthsPerKiloToken == 10000
HundredthsPerUnit == 100

None == "None"

(* ---------------------------------------------------------------------- *)
(* TokenUsage                                                              *)
(* ---------------------------------------------------------------------- *)
TokenUsage(p, c, t) ==
    [prompt_tokens |-> p, completion_tokens |-> c, total_tokens |-> t]

ZeroUsage == TokenUsage(0, 0, 0)

\* variant: the total of a sum is rebuilt from the summed parts
TokenUsage_add_TotalFromParts(self, other) ==
    TokenUsage(self.prompt_tokens + other.prompt_tokens,
               self.completion_tokens + other.completion_tokens,
               self.prompt_tokens + other.prompt_tokens
               + self.completion_tokens + other.completion_tokens)

TokenUsage_add(self, other) ==
    TokenUsage(self.prompt_tokens + other.prompt_tokens,
               self.completion_tokens + other.completion_tokens,
               self.total_tokens + other.total_tokens)

(* ---------------------------------------------------------------------- *)
(* Texts and messages                                                      *)
(* ---------------------------------------------------------------------- *)
RECURSIVE WordsFrom(_, _, _)
WordsFrom(text, i, inWord) ==
    IF i > Len(text) THEN 0
    ELSE IF text[i] = " " THEN WordsFrom(text, i + 1, FALSE)
    ELSE (IF inWord THEN 0 ELSE 1) + WordsFrom(text, i + 1, TRUE)

\* len(text.split())
WordCount(text) == WordsFrom(text, 1, FALSE)

Msg(r, c) == [role |-> r, content |-> c]

(* ---------------------------------------------------------------------- *)
(* Provider adapters                                                       *)
(* ---------------------------------------------------------------------- *)
OpenAIPricing ==
    [m \in {"gpt-4o", "gpt-4o-2024-08-06", "gpt-4-turbo", "gpt-3.5-turbo"} |->
        CASE m = "gpt-4o"            -> [input |-> 250,  output |-> 1000]
          [] m = "gpt-4o-2024-08-06" -> [input |-> 250,  output |-> 1000]
          [] m = "gpt-4-turbo"       -> [input |-> 1000, output |-> 3000]
          [] m = "gpt-3.5-turbo"     -> [input |-> 50,   output |-> 150]]

AnthropicPricing ==
    [m \in {"claude-3-5-sonnet-20241022", "claude-3-opus-20240229",
            "claude-3-haiku-20240307"} |->
        CASE m = "claude-3-5-sonnet-20241022" -> [input |-> 300,  output |-> 1500]
          [] m = "claude-3-opus-20240229"     -> [input |-> 1500, output |-> 7500]
          [] m = "claude-3-haiku-20240307"    -> [input |-> 25,   output |-> 125]]

\* variant: a model missing from the table is priced at nothing
OpenAI_estimate_cost_UnknownIsFree(model, tokens) ==
    IF model \in DOMAIN OpenAIPricing
    THEN tokens.prompt_tokens * OpenAIPricing[model].input
         + tokens.completion_tokens * OpenAIPricing[model].output
    ELSE 0

OpenAI_estimate_cost(model, tokens) ==
    LET pricing == IF model \in DOMAIN OpenAIPricing
                   THEN OpenAIPricing[model] ELSE OpenAIPricing["gpt-4o"]
    IN  tokens.prompt_tokens * pricing.input
        + tokens.completion_tokens * pricing.output

Anthropic_estimate_cost(model, tokens) ==
    LET pricing == IF model \in DOMAIN AnthropicPricing
                   THEN AnthropicPricing[model]
                   ELSE AnthropicPricing["claude-3-5-sonnet-20241022"]
    IN  tokens.prompt_tokens * pricing.input
        + tokens.completion_tokens * pricing.output

Anthropic_count_tokens(text) == WordCount(text) * TenthsPerWord

\* OpenAIProvider.count_tokens: the length of the tiktoken encoding when
\* tiktoken is installed and knows the model (encoded is that length, an
\* integer the tokenizer decides), otherwise the word estimate
OpenAI_count_tokens(text, tiktoken, encoded) ==
    IF tiktoken THEN encoded * TenthsPerToken
    ELSE WordCount(text) * TenthsPerWord

\* A backend reply is [ok |-> FALSE] (the request raised) or, on success,
\* the vendor's response: for OpenAI the text and the reported usage
\* (reports_usage is FALSE when response.usage is None, and then reading
\* usage.prompt_tokens raises inside the try block), for Anthropic the text
\* (the adapter never reads the usage the response may carry).
BackendError == [ok |-> FALSE, message |-> "overloaded"]

\* an exception as the caller sees it: the text before the colon and the
\* text of the exception it wraps
NoError == [prefix |-> "", detail |-> ""]

Error(prefix, detail) == [prefix |-> prefix, detail |-> detail]

Failure(msg) == [ok |-> FALSE, error |-> msg]

\* the number of requests one generate of an adapter sends to its client:
\* client.chat.completions.create (line 94) or client.messages.create
\* (line 190), each called once and in no loop
Provider_requests(id, messages, backend) == 1

OpenAI_generate(model, messages, backend) ==
    IF ~backend.ok
    THEN Failure(Error("OpenAI API error", backend.message))
    ELSE IF ~backend.reports_usage
    THEN Failure(Error("OpenAI API error", "AttributeError"))
    ELSE LET tokens == TokenUsage(backend.prompt_tokens * TenthsPerToken,
                                  backend.completion_tokens * TenthsPerToken,
                                  backend.total_tokens * TenthsPerToken)
         IN  [ok |-> TRUE, content |-> backend.text, model |-> model,
              tokens |-> tokens, cost |-> OpenAI_estimate_cost(model, tokens),
              provider |-> "openai"]

NoSystem == [present |-> FALSE, content |-> <<>>]

RECURSIVE ExtractSystem(_, _, _, _)
\* the loop of AnthropicProvider.generate over the messages: the last
\* system-role content wins, the other messages are kept in order
ExtractSystem(messages, i, system_message, filtered) ==
    IF i > Len(messages)
    THEN [system_message |-> system_message, filtered_messages |-> filtered]
    ELSE IF messages[i].role = "system"
         THEN ExtractSystem(messages, i + 1,
                            [present |-> TRUE, content |-> messages[i].content],
                            filtered)
         ELSE ExtractSystem(messages, i + 1, system_message,
                            Append(filtered, messages[i]))

RECURSIVE ConcatContents(_, _)
ConcatContents(msgs, i) ==
    IF i > Len(msgs) THEN <<>>
    ELSE msgs[i].content \o ConcatContents(msgs, i + 1)

\* Python truthiness of system_message: not None and not the empty string
Truthy(system_message) ==
    system_message.present /\ system_message.content # <<>>

\* the request the Anthropic adapter hands to the client: the key 'system'
\* is set only for a truthy system message
Anthropic_api_params(messages) ==
    LET ex == ExtractSystem(messages, 1, NoSystem, <<>>)
    IN  [messages |-> ex.filtered_messages,
         has_system |-> Truthy(ex.system_message),
         system |-> IF Truthy(ex.system_message)
                    THEN ex.system_message.content ELSE <<>>]

\* the request the OpenAI adapter hands to the client: the list as given
OpenAI_api_params(messages) ==
    [messages |-> messages, has_system |-> FALSE, system |-> <<>>]

Anthropic_generate(model, messages, backend) ==
    IF ~backend.ok
    THEN Failure(Error("Anthropic API error", backend.message))
    ELSE LET ex == ExtractSystem(messages, 1, NoSystem, <<>>)
             sys == IF Truthy(ex.system_message)
                    THEN ex.system_message.content ELSE <<>>
             prompt_text == sys \o ConcatContents(ex.filtered_messages, 1)
             completion_text == backend.text
             tokens == TokenUsage(Anthropic_count_tokens(prompt_text),
                                  Anthropic_count_tokens(completion_text),
                                  Anthropic_count_tokens(prompt_text \o completion_text))
         IN  [ok |-> TRUE, content |-> completion_text, model |-> model,
              tokens |-> tokens, cost |-> Anthropic_estimate_cost(model, tokens),
              provider |-> "anthropic"]

Provider_generate(id, cfg, messages, backend) ==
    IF id = "openai" THEN OpenAI_generate(cfg.OPENAI_MODEL, messages, backend)
    ELSE Anthropic_generate(cfg.ANTHROPIC_MODEL, messages, backend)

(* ---------------------------------------------------------------------- *)
(* State                                                                   *)
(* ---------------------------------------------------------------------- *)
VARIABLES
    cfg,        \* the configuration dictionary handed to the constructors
    env,        \* what the installation offers: libraries, constructors
    mgr,        \* the LLMManager: providers and the session accumulator
    attempts,   \* number of LLMManager.generate calls made so far
    returned,   \* history: the responses generate has returned, in order
    last,       \* outcome of the latest manager operation
    snap,       \* the latest get_analytics snapshot
    thr,        \* threads calling generate on a shared manager
    reader,     \* a thread calling get_analytics on the shared manager
    sim,        \* ExpertPanelSimulator.run_simulation and its group chat
    adapter,    \* the latest call made on one adapter or on TokenUsage
    an          \* the clock and the analytics snapshots of one session

vars == <<cfg, env, mgr, attempts, returned, last, snap, thr, reader, sim,
         adapter, an>>

(* ---------------------------------------------------------------------- *)
(* LLMManager                                                              *)
(* ---------------------------------------------------------------------- *)
NoManager ==
    [state |-> "unconstructed", providers |-> <<>>, total_usage |-> ZeroUsage,
     total_cost |-> 0, call_count |-> 0]

\* OPENAI_AVAILABLE / ANTHROPIC_AVAILABLE and the constructors' outcome
LibStates == {"ok", "not_installed", "constructor_raises"}

\* variant: an adapter constructor that raises ends the initialization
InitializeProviders_FailureAborts(c, e) ==
    IF \/ c.OPENAI_API_KEY /\ e.openai = "constructor_raises"
       \/ c.ANTHROPIC_API_KEY /\ e.anthropic = "constructor_raises"
    THEN <<>>
    ELSE (IF c.OPENAI_API_KEY /\ e.openai = "ok" THEN <<"openai">> ELSE <<>>)
         \o
         (IF c.ANTHROPIC_API_KEY /\ e.anthropic = "ok"
          THEN <<"anthropic">> ELSE <<>>)

\* LLMManager._initialize_providers: the registry in insertion order
InitializeProviders(c, e) ==
    (IF c.OPENAI_API_KEY /\ e.openai # "not_installed" /\ e.openai = "ok"
     THEN <<"openai">> ELSE <<>>)
    \o
    (IF c.ANTHROPIC_API_KEY /\ e.anthropic # "not_installed" /\ e.anthropic = "ok"
     THEN <<"anthropic">> ELSE <<>>)

\* variant: construction goes through with an empty registry
LLMManager_init_AllowsEmpty(c, e) ==
    [NoManager EXCEPT !.state = "ready", !.providers = InitializeProviders(c, e)]

\* LLMManager.__init__: _initialize_providers raises Exception("No LLM
\* providers available. Check your API keys and installations.") when the
\* registry is empty, and no manager comes into being
LLMManager_init(c, e) ==
    LET ps == InitializeProviders(c, e)
    IN  IF ps = <<>>
        THEN [NoManager EXCEPT !.state = "failed"]
        ELSE [NoManager EXCEPT !.state = "ready", !.providers = ps]

Registered(providers) == {providers[i] : i \in DOMAIN providers}

\* config.get('PRIMARY_PROVIDER', 'anthropic')
PrimaryProvider(c) ==
    IF c.PRIMARY_PROVIDER = "unset" THEN "anthropic" ELSE c.PRIMARY_PROVIDER

\* variant: the provider argument is ignored, the configured one always wins
ResolveProvider_IgnoresArgument(c, providers, provider) ==
    IF PrimaryProvider(c) \in Registered(providers)
    THEN [ok |-> TRUE, provider |-> PrimaryProvider(c), notices |-> <<>>]
    ELSE IF providers # <<>>
         THEN [ok |-> TRUE, provider |-> providers[1],
               notices |-> << [requested |-> providers[1],
                               used |-> providers[1]] >>]
         ELSE [ok |-> FALSE, provider |-> None, notices |-> <<>>]

\* variant: the fallback takes the most recently registered provider
ResolveProvider_LastRegistered(c, providers, provider) ==
    LET wanted == IF provider = None THEN PrimaryProvider(c) ELSE provider
    IN  IF wanted \in Registered(providers)
        THEN [ok |-> TRUE, provider |-> wanted, notices |-> <<>>]
        ELSE IF providers # <<>>
             THEN [ok |-> TRUE, provider |-> providers[Len(providers)],
                   notices |-> << [requested |-> providers[Len(providers)],
                                   used |-> providers[Len(providers)]] >>]
             ELSE [ok |-> FALSE, provider |-> None, notices |-> <<>>]

\* the provider choice of LLMManager.generate.  The notice is printed after
\* 'provider' has been reassigned, so both names in it are the one used.
ResolveProvider(c, providers, provider) ==
    LET wanted == IF provider = None THEN PrimaryProvider(c) ELSE provider
    IN  IF wanted \in Registered(providers)
        THEN [ok |-> TRUE, provider |-> wanted, notices |-> <<>>]
        ELSE IF providers # <<>>
             THEN [ok |-> TRUE, provider |-> providers[1],
                   notices |-> << [requested |-> providers[1],
                                   used |-> providers[1]] >>]
             ELSE [ok |-> FALSE, provider |-> None, notices |-> <<>>]

\* variant: the cost of a call is not added
TrackUsage_DropsCost(m, response) ==
    [m EXCEPT !.total_usage = TokenUsage_add(m.total_usage, response.tokens),
              !.call_count = m.call_count + 1]

\* the three 'Track usage' statements of LLMManager.generate
TrackUsage(m, response) ==
    [m EXCEPT !.total_usage = TokenUsage_add(m.total_usage, response.tokens),
              !.total_cost = m.total_cost + response.cost,
              !.call_count = m.call_count + 1]

\* variant: the call is counted before the adapter is invoked
LLMManager_generate_CountsFirst(m, c, provider, messages, backend) ==
    LET r == ResolveProvider(c, m.providers, provider)
        counted == [m EXCEPT !.call_count = m.call_count + 1]
    IN  IF ~r.ok
        THEN [mgr |-> m, response |-> Failure(Error("No LLM providers available", "")),
              used |-> None, notices |-> <<>>, adapter_calls |-> 0,
              requests |-> 0]
        ELSE LET response == Provider_generate(r.provider, c, messages, backend)
             IN  IF ~response.ok
                 THEN [mgr |-> counted, response |-> response,
                       used |-> r.provider, notices |-> r.notices,
                       adapter_calls |-> 1,
                       requests |-> Provider_requests(r.provider, messages,
                                                      backend)]
                 ELSE [mgr |-> [counted EXCEPT
                                  !.total_usage = TokenUsage_add(m.total_usage,
                                                                 response.tokens),
                                  !.total_cost = m.total_cost + response.cost],
                       response |-> response, used |-> r.provider,
                       notices |-> r.notices, adapter_calls |-> 1,
                       requests |-> Provider_requests(r.provider, messages,
                                                      backend)]

\* variant: a failed call is tried once more before the error is passed on
LLMManager_generate_RetriesOnce(m, c, provider, messages, backend) ==
    LET r == ResolveProvider(c, m.providers, provider)
    IN  IF ~r.ok
        THEN [mgr |-> m,
              response |-> Failure(Error("No LLM providers available", "")),
              used |-> None, notices |-> <<>>, adapter_calls |-> 0,
              requests |-> 0]
        ELSE LET response == Provider_generate(r.provider, c, messages, backend)
                 n == Provider_requests(r.provider, messages, backend)
             IN  IF ~response.ok
                 THEN [mgr |-> m, response |-> response, used |-> r.provider,
                       notices |-> r.notices, adapter_calls |-> 2,
                       requests |-> n + n]
                 ELSE [mgr |-> TrackUsage(m, response), response |-> response,
                       used |-> r.provider, notices |-> r.notices,
                       adapter_calls |-> 1, requests |-> n]

\* LLMManager.generate as one call: the manager afterwards, and what the
\* caller gets (a response, or the exception that propagated)
LLMManager_generate(m, c, provider, messages, backend) ==
    LET r == ResolveProvider(c, m.providers, provider)
    IN  IF ~r.ok
        THEN [mgr |-> m, response |-> Failure(Error("No LLM providers available", "")),
              used |-> None, notices |-> <<>>, adapter_calls |-> 0,
              requests |-> 0]
        ELSE LET response == Provider_generate(r.provider, c, messages, backend)
             IN  IF ~response.ok
                 THEN [mgr |-> m, response |-> response, used |-> r.provider,
                       notices |-> r.notices, adapter_calls |-> 1,
                       requests |-> Provider_requests(r.provider, messages,
                                                      backend)]
                 ELSE [mgr |-> TrackUsage(m, response), response |-> response,
                       used |-> r.provider, notices |-> r.notices,
                       adapter_calls |-> 1,
                       requests |-> Provider_requests(r.provider, messages,
                                                      backend)]

\* LLMManager.get_analytics: the accumulator fields a snapshot reports
NoSnapshot ==
    [taken |-> FALSE, total_calls |-> 0, token_usage |-> ZeroUsage,
     total_cost |-> 0]

LLMManager_get_analytics(m) ==
    [taken |-> TRUE, total_calls |-> m.call_count,
     token_usage |-> m.total_usage, total_cost |-> m.total_cost]

Max(a, b) == IF a >= b THEN a ELSE b

\* variant: digits beyond the kept ones are cut off
Round_Truncates(n, d) == n \div d

\* Python round() of the quotient n / d to an integer of the kept unit,
\* computed exactly: to the nearest, a tie to the even neighbour
Round(n, d) ==
    LET q == n \div d
        r == n % d
    IN  IF 2 * r < d THEN q
        ELSE IF 2 * r > d THEN q + 1
        ELSE IF q % 2 = 0 THEN q ELSE q + 1

\* config.get('PRIMARY_PROVIDER', 'unknown')
ReportedPrimary(c) ==
    IF c.PRIMARY_PROVIDER = "unset" THEN "unknown" ELSE c.PRIMARY_PROVIDER

\* variant: the average cost is taken per elapsed minute as well
AnalyticsAt_CostPerMinute(m, c, session_duration) ==
    [taken |-> TRUE,
     duration_minutes |->
        Round(session_duration * HundredthsPerUnit, SecondsPerMinute),
     total_calls |-> m.call_count,
     providers_used |-> m.providers,
     primary_provider |-> ReportedPrimary(c),
     token_usage |-> m.total_usage,
     total_cost_usd |-> Round(m.total_cost, CostUnitsPerRounded),
     average_cost_per_call |->
        Round(m.total_cost,
              CostUnitsPerRounded * Max(m.call_count, 1)
                * Max(session_duration \div SecondsPerMinute, 1)),
     estimated_cost_per_1k_tokens |->
        Round(m.total_cost,
              (CostUnitsPerRounded \div TenthsPerKiloToken)
                * Max(m.total_usage.total_tokens, TenthsPerKiloToken)),
     calls_per_minute |->
        Round(m.call_count * HundredthsPerUnit * SecondsPerMinute,
              Max(session_duration, SecondsPerMinute)),
     tokens_per_minute |->
        Round(m.total_usage.total_tokens * SecondsPerMinute,
              TenthsPerToken * Max(session_duration, SecondsPerMinute))]

\* LLMManager.get_analytics with session_duration = time.time() -
\* session_start in seconds.  duration_minutes and calls_per_minute are in
\* hundredths, the costs in 1e-4 USD, tokens_per_minute in whole tokens.
AnalyticsAt(m, c, session_duration) ==
    [taken |-> TRUE,
     duration_minutes |->
        Round(session_duration * HundredthsPerUnit, SecondsPerMinute),
     total_calls |-> m.call_count,
     providers_used |-> m.providers,
     primary_provider |-> ReportedPrimary(c),
     token_usage |-> m.total_usage,
     total_cost_usd |-> Round(m.total_cost, CostUnitsPerRounded),
     average_cost_per_call |->
        Round(m.total_cost, CostUnitsPerRounded * Max(m.call_count, 1)),
     estimated_cost_per_1k_tokens |->
        Round(m.total_cost,
              (CostUnitsPerRounded \div TenthsPerKiloToken)
                * Max(m.total_usage.total_tokens, TenthsPerKiloToken)),
     calls_per_minute |->
        Round(m.call_count * HundredthsPerUnit * SecondsPerMinute,
              Max(session_duration, SecondsPerMinute)),
     tokens_per_minute |->
        Round(m.total_usage.total_tokens * SecondsPerMinute,
              TenthsPerToken * Max(session_duration, SecondsPerMinute))]

\* variant: saving starts a new accounting period
LLMManager_save_analytics_ResetsSession(m, c, session_duration) ==
    [mgr |-> [m EXCEPT !.total_usage = ZeroUsage, !.total_cost = 0,
                       !.call_count = 0],
     analytics |-> AnalyticsAt(m, c, session_duration),
     file |-> AnalyticsAt(m, c, session_duration)]

\* LLMManager.save_analytics: the snapshot is dumped to the file and returned
LLMManager_save_analytics(m, c, session_duration) ==
    [mgr |-> m,
     analytics |-> AnalyticsAt(m, c, session_duration),
     file |-> AnalyticsAt(m, c, session_duration)]

(* ---------------------------------------------------------------------- *)
(* Inputs                                                                  *)
(* ---------------------------------------------------------------------- *)
ProviderArgs == {None, "openai", "anthropic", "C"}

CallMessages ==
    { << Msg("user", <<"w">>) >>,
      << Msg("system", <<"w", " ", "w">>), Msg("user", <<"w">>) >> }

\* what the vendor may answer to one request
Backends(id) ==
    IF id = "openai"
    THEN {BackendError,
          [ok |-> TRUE, text |-> <<"w">>, reports_usage |-> TRUE,
           prompt_tokens |-> 2, completion_tokens |-> 1, total_tokens |-> 3]}
    ELSE {BackendError, [ok |-> TRUE, text |-> <<"w", " ", "w">>]}

NoLast ==
    [op |-> "none", ok |-> TRUE, requested |-> None, used |-> None,
     notices |-> <<>>, adapter_calls |-> 0, requests |-> 0,
     error |-> NoError, backend |-> BackendError]

NoResponse ==
    [ok |-> FALSE, content |-> <<>>, model |-> None, tokens |-> ZeroUsage,
     cost |-> 0, provider |-> None]

Idle == [pc |-> "idle", response |-> NoResponse, usage |-> ZeroUsage, num |-> 0]

ReaderIdle == [pc |-> "idle", total_calls |-> 0, token_usage |-> ZeroUsage]
NoResult == [kind |-> "none", transcript |-> <<>>, analytics |-> NoSnapshot]

NoSim ==
    [state |-> "NotStarted", roster |-> <<>>, max_round |-> 0,
     messages |-> <<>>, generated |-> 0, result |-> NoResult,
     api_type |-> None]

NoAdapter ==
    [op |-> "none", provider |-> None, model |-> None, tiktoken |-> FALSE,
     messages |-> <<>>, backend |-> BackendError, response |-> NoResponse,
     request |-> OpenAI_api_params(<<>>),
     tokens |-> ZeroUsage, cost |-> 0, text |-> <<>>, count |-> 0,
     a |-> ZeroUsage, b |-> ZeroUsage, c |-> ZeroUsage, sum |-> ZeroUsage]

NoFullSnapshot ==
    [taken |-> FALSE, duration_minutes |-> 0, total_calls |-> 0,
     providers_used |-> <<>>, primary_provider |-> None,
     token_usage |-> ZeroUsage, total_cost_usd |-> 0,
     average_cost_per_call |-> 0, estimated_cost_per_1k_tokens |-> 0,
     calls_per_minute |-> 0, tokens_per_minute |-> 0]

\* the clock of a session (seconds), the get_analytics results handed out so
\* far, each with the number of generate calls made before it, and the file
\* save_analytics wrote last
NoAnalytics ==
    [session_start |-> 0, now |-> 0, reads |-> 0, shots |-> <<>>,
     file |-> NoFullSnapshot]

Configs ==
    [OPENAI_API_KEY : BOOLEAN, ANTHROPIC_API_KEY : BOOLEAN,
     PRIMARY_PROVIDER : {"unset", "openai", "anthropic", "other"},
     OPENAI_MODEL : {"gpt-4o"},
     ANTHROPIC_MODEL : {"claude-3-5-sonnet-20241022"},
     MAX_ROUNDS : {0}]

Envs == [openai : LibStates, anthropic : LibStates]

(* ---------------------------------------------------------------------- *)
(* Spec: one caller using one LLMManager                                   *)
(* ---------------------------------------------------------------------- *)
Init ==
    /\ cfg \in Configs
    /\ env \in Envs
    /\ mgr = NoManager
    /\ attempts = 0
    /\ returned = <<>>
    /\ last = NoLast
    /\ snap = NoSnapshot
    /\ thr = [t \in 1..MaxThreads |-> Idle]
    /\ reader = ReaderIdle
    /\ sim = NoSim
    /\ adapter = NoAdapter
    /\ an = NoAnalytics

\* LLMManager(config)
Construct ==
    /\ mgr.state = "unconstructed"
    /\ mgr' = LLMManager_init(cfg, env)
    /\ last' = [NoLast EXCEPT !.op = "construct",
                              !.ok = (LLMManager_init(cfg, env).state = "ready")]
    /\ UNCHANGED <<adapter, an, cfg, env, attempts, returned, snap, thr, reader, sim>>

\* llm_manager.generate(messages, provider)
Generate ==
    /\ mgr.state = "ready"
    /\ attempts < MaxCalls
    /\ \E provider \in ProviderArgs, messages \in CallMessages :
         LET r == ResolveProvider(cfg, mgr.providers, provider)
         IN  \E backend \in Backends(r.provider) :
               LET g == LLMManager_generate(mgr, cfg, provider, messages, backend)
               IN  /\ mgr' = g.mgr
                   /\ returned' = IF g.response.ok
                                  THEN Append(returned, g.response)
                                  ELSE returned
                   /\ last' = [op |-> "generate", ok |-> g.response.ok,
                               requested |-> provider, used |-> g.used,
                               notices |-> g.notices,
                               adapter_calls |-> g.adapter_calls,
                               requests |-> g.requests,
                               error |-> IF g.response.ok THEN NoError
                                         ELSE g.response.error,
                               backend |-> backend]
    /\ attempts' = attempts + 1
    /\ UNCHANGED <<adapter, an, cfg, env, snap, thr, reader, sim>>

\* llm_manager.get_analytics()
GetAnalytics ==
    /\ mgr.state = "ready"
    /\ snap' = LLMManager_get_analytics(mgr)
    /\ snap' # snap
    /\ last' = [NoLast EXCEPT !.op = "get_analytics"]
    /\ UNCHANGED <<adapter, an, cfg, env, mgr, attempts, returned, thr, reader, sim>>

Next == Construct \/ Generate \/ GetAnalytics

Spec == Init /\ [][Next]_vars

(* ---------------------------------------------------------------------- *)
(* Accounting (Spec)                                                       *)
(* ---------------------------------------------------------------------- *)
RECURSIVE SumCost(_)
SumCost(rs) == IF rs = <<>> THEN 0 ELSE rs[1].cost + SumCost(Tail(rs))

RECURSIVE SumUsage(_)
SumUsage(rs) ==
    IF rs = <<>> THEN ZeroUsage
    ELSE [prompt_tokens |-> rs[1].tokens.prompt_tokens
                            + SumUsage(Tail(rs)).prompt_tokens,
          completion_tokens |-> rs[1].tokens.completion_tokens
                                + SumUsage(Tail(rs)).completion_tokens,
          total_tokens |-> rs[1].tokens.total_tokens
                           + SumUsage(Tail(rs)).total_tokens]

\* C1: after N successful generate calls, with any number of failed ones in
\* between, call_count is N, total_cost is the sum of the N returned costs
\* and total_usage is the field-wise sum of the N returned usages.
AccumulatorMatchesReturned ==
    /\ mgr.call_count = Len(returned)
    /\ mgr.total_cost = SumCost(returned)
    /\ mgr.total_usage = SumUsage(returned)

\* two successful calls around a failed one
TwoReturnedOneFailed ==
    /\ Len(returned) = 2
    /\ attempts = 3
    /\ last.op = "generate" /\ last.ok
    /\ mgr.total_cost > 0

\* C3: a generate call that fails leaves total_usage, total_cost and
\* call_count as they were; a call that returns applies all three updates.
FailedCallChangesNothing ==
    [][attempts' = attempts + 1 =>
         IF last'.ok
         THEN /\ mgr'.call_count = mgr.call_count + 1
              /\ mgr'.total_cost =
                    mgr.total_cost + returned'[Len(returned')].cost
              /\ mgr'.total_usage.total_tokens =
                    mgr.total_usage.total_tokens
                    + returned'[Len(returned')].tokens.total_tokens
              /\ mgr'.total_usage.prompt_tokens =
                    mgr.total_usage.prompt_tokens
                    + returned'[Len(returned')].tokens.prompt_tokens
              /\ mgr'.total_usage.completion_tokens =
                    mgr.total_usage.completion_tokens
                    + returned'[Len(returned')].tokens.completion_tokens
         ELSE /\ mgr'.call_count = mgr.call_count
              /\ mgr'.total_cost = mgr.total_cost
              /\ mgr'.total_usage = mgr.total_usage]_vars

\* the adapter raised after an earlier call had been accounted
FailedAfterSuccess ==
    /\ last.op = "generate" /\ ~last.ok
    /\ last.adapter_calls = 1
    /\ mgr.call_count >= 1
    /\ attempts = mgr.call_count + 1

(* ---------------------------------------------------------------------- *)
(* Provider resolution (Spec)                                              *)
(* ---------------------------------------------------------------------- *)
\* C6: a registered provider id is used as given, and a call without a
\* provider id uses the configured default when that default is registered.
RegisteredChoiceIsHonoured ==
    last.op = "generate" =>
      /\ last.requested \in Registered(mgr.providers)
            => last.used = last.requested
      /\ (last.requested = None /\ PrimaryProvider(cfg) \in Registered(mgr.providers))
            => last.used = PrimaryProvider(cfg)

\* a registered provider other than the configured default was asked for
ExplicitNonDefaultUsed ==
    /\ last.op = "generate" /\ last.ok
    /\ last.requested = "openai"
    /\ cfg.PRIMARY_PROVIDER = "anthropic"
    /\ Len(mgr.providers) = 2
    /\ last.used = "openai"

\* C7 (as claimed): an unregistered provider id resolves to the configured
\* default provider whenever that default is registered.
UnregisteredFallsBackToDefault ==
    (/\ last.op = "generate"
     /\ last.requested # None
     /\ last.requested \notin Registered(mgr.providers)
     /\ PrimaryProvider(cfg) \in Registered(mgr.providers))
    => last.used = PrimaryProvider(cfg)

\* C8: with a provider registered, resolution never fails; a request for
\* an unregistered id is served by the first registered provider and one
\* fallback notice is emitted.
FallbackServesFirstRegistered ==
    last.op = "generate" =>
      /\ last.used \in Registered(mgr.providers)
      /\ last.adapter_calls = 1
      /\ (last.requested # None /\ last.requested \notin Registered(mgr.providers))
            => /\ last.used = mgr.providers[1]
               /\ Len(last.notices) = 1
      /\ last.requested \in Registered(mgr.providers)
            => last.notices = <<>>

\* an unregistered id was served while two providers were registered
UnregisteredServed ==
    /\ last.op = "generate" /\ last.ok
    /\ last.requested = "C"
    /\ mgr.providers = <<"openai", "anthropic">>
    /\ last.used = "openai"
    /\ Len(last.notices) = 1

\* C11 (as stated): every usage a successful generate call returned has
\* total_tokens = prompt_tokens + completion_tokens, and so has the
\* accumulated total_usage of the manager.
UsageTotalIsSum ==
    /\ \A i \in DOMAIN returned :
         returned[i].tokens.total_tokens
           = returned[i].tokens.prompt_tokens
             + returned[i].tokens.completion_tokens
    /\ mgr.total_usage.total_tokens
         = mgr.total_usage.prompt_tokens + mgr.total_usage.completion_tokens

\* an adapter constructs: its key is configured, its library is installed
\* and its constructor does not raise
Constructs(c, e) ==
    {id \in {"openai", "anthropic"} :
        IF id = "openai" THEN c.OPENAI_API_KEY /\ e.openai = "ok"
        ELSE c.ANTHROPIC_API_KEY /\ e.anthropic = "ok"}

\* C20: once LLMManager(config) has run, it has succeeded exactly when at
\* least one adapter constructed; a manager that exists has a non-empty
\* registry holding exactly the adapters that constructed, and a failed
\* construction leaves no manager and no registry behind.
ConstructionIffSomeAdapter ==
    mgr.state # "unconstructed" =>
        /\ (mgr.state = "ready") <=> (Constructs(cfg, env) # {})
        /\ (mgr.state = "failed") <=> (Constructs(cfg, env) = {})
        /\ mgr.state = "ready" =>
               /\ mgr.providers # <<>>
               /\ Registered(mgr.providers) = Constructs(cfg, env)
        /\ mgr.state = "failed" => mgr.providers = <<>> /\ attempts = 0

\* C20 witness: a key is configured but the only adapter's constructor
\* raised, and construction failed
KeyPresentButConstructionFailed ==
    /\ mgr.state = "failed"
    /\ last.op = "construct"
    /\ cfg.OPENAI_API_KEY
    /\ env.openai = "constructor_raises"
    /\ ~cfg.ANTHROPIC_API_KEY

\* the adapters whose construction was attempted and raised
RaisedInConstruction(c, e) ==
    {id \in {"openai", "anthropic"} :
        IF id = "openai" THEN c.OPENAI_API_KEY /\ e.openai = "constructor_raises"
        ELSE c.ANTHROPIC_API_KEY /\ e.anthropic = "constructor_raises"}

\* C21: when the constructor of one adapter raised and the other adapter
\* constructed, LLMManager(config) has succeeded, its registry holds the
\* other adapter and not the failed one, and every call is served by the
\* registered one.
OneAdapterFailureIsAbsorbed ==
    (/\ mgr.state # "unconstructed"
     /\ RaisedInConstruction(cfg, env) # {}
     /\ Constructs(cfg, env) # {})
    => /\ mgr.state = "ready"
       /\ Registered(mgr.providers) \cap RaisedInConstruction(cfg, env) = {}
       /\ Registered(mgr.providers) = Constructs(cfg, env)
       /\ last.op = "generate" => last.used \in Constructs(cfg, env)
       /\ \A i \in DOMAIN returned : returned[i].provider \in Constructs(cfg, env)

\* C21 witness: the OpenAI constructor raised, the Anthropic adapter was
\* registered alone and has answered a call that asked for openai
SurvivorServedCall ==
    /\ cfg.OPENAI_API_KEY /\ env.openai = "constructor_raises"
    /\ mgr.providers = <<"anthropic">>
    /\ last.op = "generate" /\ last.ok
    /\ last.requested = "openai"
    /\ returned # <<>>
    /\ returned[Len(returned)].provider = "anthropic"

Wanted == IF last.requested = None THEN PrimaryProvider(cfg) ELSE last.requested

\* C26 (as stated): every fallback notice names the provider that was asked
\* for and the provider that was used, and the two differ.
NoticeNamesBothProviders ==
    last.op = "generate" =>
        \A i \in DOMAIN last.notices :
            /\ last.notices[i].requested = Wanted
            /\ last.notices[i].used = last.used
            /\ last.notices[i].requested # last.notices[i].used

(* ---------------------------------------------------------------------- *)
(* SpecConc: several threads share one LLMManager                          *)
(*                                                                         *)
(* generate and get_analytics take no lock.  Each augmented assignment of  *)
(* generate is a load of the attribute followed by a store, and the        *)
(* interpreter may switch threads between the two (TokenUsage.__add__ is a *)
(* Python-level call in between).  get_analytics builds its dictionary     *)
(* entry by entry, reading the attributes one after the other.             *)
(* ---------------------------------------------------------------------- *)
SharedConfig ==
    [OPENAI_API_KEY |-> TRUE, ANTHROPIC_API_KEY |-> TRUE,
     PRIMARY_PROVIDER |-> "anthropic", OPENAI_MODEL |-> "gpt-4o",
     ANTHROPIC_MODEL |-> "claude-3-5-sonnet-20241022", MAX_ROUNDS |-> 0]

SharedEnv == [openai |-> "ok", anthropic |-> "ok"]

InitConc ==
    /\ cfg = SharedConfig
    /\ env = SharedEnv
    /\ mgr = LLMManager_init(SharedConfig, SharedEnv)
    /\ attempts = 0
    /\ returned = <<>>
    /\ last = NoLast
    /\ snap = NoSnapshot
    /\ thr = [t \in 1..MaxThreads |-> Idle]
    /\ reader = ReaderIdle
    /\ sim = NoSim
    /\ adapter = NoAdapter
    /\ an = NoAnalytics

\* lines 282-294: choose the provider and wait for the adapter
T_Call(t) ==
    /\ thr[t].pc = "idle"
    /\ attempts < MaxConcCalls
    /\ \E provider \in {None, "C"} :
         LET r == ResolveProvider(cfg, mgr.providers, provider)
             messages == << Msg("user", <<"w">>) >>
         IN  \E backend \in Backends(r.provider) :
               LET response == Provider_generate(r.provider, cfg, messages, backend)
               IN  /\ thr' = [thr EXCEPT ![t] =
                                IF response.ok
                                THEN [Idle EXCEPT !.pc = "l297_load",
                                                  !.response = response]
                                ELSE Idle]
                   /\ last' = [op |-> "generate", ok |-> response.ok,
                               requested |-> provider, used |-> r.provider,
                               notices |-> r.notices, adapter_calls |-> 1,
                               requests |-> Provider_requests(r.provider,
                                                              messages, backend),
                               error |-> IF response.ok THEN NoError
                                         ELSE response.error,
                               backend |-> backend]
    /\ attempts' = attempts + 1
    /\ UNCHANGED <<adapter, an, cfg, env, mgr, returned, snap, reader, sim>>

\* line 297, self.total_usage += response.tokens
T_LoadUsage(t) ==
    /\ thr[t].pc = "l297_load"
    /\ thr' = [thr EXCEPT ![t].pc = "l297_store", ![t].usage = mgr.total_usage]
    /\ UNCHANGED <<adapter, an, cfg, env, mgr, attempts, returned, last, snap, reader, sim>>

T_StoreUsage(t) ==
    /\ thr[t].pc = "l297_store"
    /\ mgr' = [mgr EXCEPT !.total_usage =
                 TokenUsage_add(thr[t].usage, thr[t].response.tokens)]
    /\ thr' = [thr EXCEPT ![t].pc = "l298_load", ![t].usage = ZeroUsage]
    /\ UNCHANGED <<adapter, an, cfg, env, attempts, returned, last, snap, reader, sim>>

\* line 298, self.total_cost += response.cost
T_LoadCost(t) ==
    /\ thr[t].pc = "l298_load"
    /\ thr' = [thr EXCEPT ![t].pc = "l298_store", ![t].num = mgr.total_cost]
    /\ UNCHANGED <<adapter, an, cfg, env, mgr, attempts, returned, last, snap, reader, sim>>

T_StoreCost(t) ==
    /\ thr[t].pc = "l298_store"
    /\ mgr' = [mgr EXCEPT !.total_cost = thr[t].num + thr[t].response.cost]
    /\ thr' = [thr EXCEPT ![t].pc = "l299_load", ![t].num = 0]
    /\ UNCHANGED <<adapter, an, cfg, env, attempts, returned, last, snap, reader, sim>>

\* line 299, self.call_count += 1
T_LoadCount(t) ==
    /\ thr[t].pc = "l299_load"
    /\ thr' = [thr EXCEPT ![t].pc = "l299_store", ![t].num = mgr.call_count]
    /\ UNCHANGED <<adapter, an, cfg, env, mgr, attempts, returned, last, snap, reader, sim>>

\* ... and line 301, return response
T_StoreCount(t) ==
    /\ thr[t].pc = "l299_store"
    /\ mgr' = [mgr EXCEPT !.call_count = thr[t].num + 1]
    /\ returned' = Append(returned, thr[t].response)
    /\ thr' = [thr EXCEPT ![t] = Idle]
    /\ UNCHANGED <<adapter, an, cfg, env, attempts, last, snap, reader, sim>>

\* get_analytics, line 310: 'total_calls': self.call_count
R_ReadCalls ==
    /\ reader.pc = "idle"
    /\ ~snap.taken
    /\ reader' = [ReaderIdle EXCEPT !.pc = "l315", !.total_calls = mgr.call_count]
    /\ UNCHANGED <<adapter, an, cfg, env, mgr, attempts, returned, last, snap, thr, sim>>

\* lines 315-317: the 'token_usage' entry
R_ReadUsage ==
    /\ reader.pc = "l315"
    /\ reader' = [reader EXCEPT !.pc = "l320", !.token_usage = mgr.total_usage]
    /\ UNCHANGED <<adapter, an, cfg, env, mgr, attempts, returned, last, snap, thr, sim>>

\* lines 320-330: the 'costs' entry, and the snapshot is returned
R_ReadCost ==
    /\ reader.pc = "l320"
    /\ snap' = [taken |-> TRUE, total_calls |-> reader.total_calls,
                token_usage |-> reader.token_usage,
                total_cost |-> mgr.total_cost]
    /\ reader' = ReaderIdle
    /\ UNCHANGED <<adapter, an, cfg, env, mgr, attempts, returned, last, thr, sim>>

NextConc ==
    \/ \E t \in 1..MaxThreads :
         \/ T_Call(t)
         \/ T_LoadUsage(t) \/ T_StoreUsage(t)
         \/ T_LoadCost(t) \/ T_StoreCost(t)
         \/ T_LoadCount(t) \/ T_StoreCount(t)
    \/ R_ReadCalls \/ R_ReadUsage \/ R_ReadCost

SpecConc == InitConc /\ [][NextConc]_vars

\* the calls whose response the adapter has handed back: those returned and
\* those still between line 294 and line 301
InFlight == {t \in 1..MaxThreads : thr[t].pc # "idle"}

\* C9 (as claimed): once every successful call has returned, call_count is
\* their number and total_cost / total_usage are the sums over them,
\* whatever the interleaving of the accumulator updates.
NoCallLostOrDoubled ==
    (InFlight = {}) =>
      /\ mgr.call_count = Len(returned)
      /\ mgr.total_cost = SumCost(returned)
      /\ mgr.total_usage = SumUsage(returned)

RECURSIVE SumCostOver(_, _)
SumCostOver(rs, S) ==
    IF S = {} THEN 0
    ELSE LET i == CHOOSE j \in S : TRUE
         IN  rs[i].cost + SumCostOver(rs, S \ {i})

RECURSIVE SumTokensOver(_, _)
SumTokensOver(rs, S) ==
    IF S = {} THEN 0
    ELSE LET i == CHOOSE j \in S : TRUE
         IN  rs[i].tokens.total_tokens + SumTokensOver(rs, S \ {i})

\* every response an adapter has produced so far in SpecConc
Produced ==
    LET RECURSIVE Pending(_)
        Pending(T) ==
            IF T = {} THEN <<>>
            ELSE LET t == CHOOSE u \in T : TRUE
                 IN  <<thr[t].response>> \o Pending(T \ {t})
    IN  returned \o Pending(InFlight)

\* C10 (as claimed): a snapshot shows the tokens, the cost and the count of
\* one and the same set of calls.
SnapshotIsOfWholeCalls ==
    snap.taken =>
      \E S \in SUBSET (1..Len(Produced)) :
        /\ snap.total_calls = Cardinality(S)
        /\ snap.total_cost = SumCostOver(Produced, S)
        /\ snap.token_usage.total_tokens = SumTokensOver(Produced, S)

(* ---------------------------------------------------------------------- *)
(* SpecSim: ExpertPanelSimulator.run_simulation                            *)
(*                                                                         *)
(* The discussion is an AutoGen GroupChat (pyautogen 0.2.35, the version   *)
(* the source asks for) configured by run_simulation: agents               *)
(* [coordinator, Moderator, experts...], speaker_selection_method          *)
(* "round_robin", max_round from MAX_ROUNDS.  The coordinator is a         *)
(* UserProxyAgent with human_input_mode "NEVER" and                        *)
(* max_consecutive_auto_reply 0: asked for a reply it returns None, and    *)
(* the group chat manager stops the chat on a None reply.  Experts and the *)
(* moderator are AssistantAgents carrying their own llm_config: their      *)
(* replies are generated by AutoGen's client, never by LLMManager.generate.*)
(* ---------------------------------------------------------------------- *)
ExpertNames == <<"expert_1", "expert_2", "expert_3", "expert_4", "expert_5">>

\* all_agents = [user_proxy] + [moderator] + list(experts.values())
AllAgents(n) == <<"coordinator", "Moderator">> \o SubSeq(ExpertNames, 1, n)

\* int(self.config.get('MAX_ROUNDS', 8))
MaxRound(c) == IF c.MAX_ROUNDS = 0 THEN DefaultMaxRounds ELSE c.MAX_ROUNDS

\* round_robin: the agent after the last speaker, wrapping around
NextSpeaker(roster, messages) ==
    LET lastName == messages[Len(messages)].name
        i == CHOOSE j \in DOMAIN roster : roster[j] = lastName
    IN  roster[(i % Len(roster)) + 1]

\* _extract_transcript: one '## name' section per message, in order
ExtractTranscript(messages) == [i \in DOMAIN messages |-> messages[i].name]

\* lines 265-277 and _save_session_outputs: transcript, analytics snapshot
\* of the session's LLMManager, summary
SaveSessionOutputs(m, messages) ==
    [kind |-> "summary", transcript |-> ExtractTranscript(messages),
     analytics |-> LLMManager_get_analytics(m)]

\* lines 279-282: return {"error": str(e)}
ErrorResult == [kind |-> "error", transcript |-> <<>>, analytics |-> NoSnapshot]

\* the api_type of the llm_config that _create_expert_agent and
\* _create_moderator give every agent: anthropic, unless PRIMARY_PROVIDER
\* is 'openai'
AgentApiType(c) ==
    IF c.PRIMARY_PROVIDER = "openai" THEN "openai" ELSE "anthropic"

\* variant: the coordinator answers like any other agent
GeneratesReply_Everyone(speaker) == TRUE

\* whether an agent asked for a reply produces one: the coordinator, a
\* UserProxyAgent with max_consecutive_auto_reply 0 and no llm_config,
\* returns None
GeneratesReply(speaker) == speaker # "coordinator"

\* variant: the ceiling on the number of messages is not applied
ChatContinues_Unbounded(sm) == TRUE

\* the chat is over once max_round messages are recorded
ChatContinues(sm) == Len(sm.messages) < sm.max_round

Completed(sm, m) ==
    [sm EXCEPT !.state = "Completed",
               !.result = SaveSessionOutputs(m, sm.messages)]

SimConfigs ==
    [OPENAI_API_KEY : BOOLEAN, ANTHROPIC_API_KEY : BOOLEAN,
     PRIMARY_PROVIDER : {"unset", "openai"},
     OPENAI_MODEL : {"gpt-4o"},
     ANTHROPIC_MODEL : {"claude-3-5-sonnet-20241022"},
     MAX_ROUNDS : 0..MaxRoundsCfg]

\* ExpertPanelSimulator(config): the session's LLMManager is constructed,
\* or its construction has failed and there is no simulator to run
InitSim ==
    /\ cfg \in SimConfigs
    /\ env = SharedEnv
    /\ mgr = LLMManager_init(cfg, env)
    /\ attempts = 0
    /\ returned = <<>>
    /\ last = NoLast
    /\ snap = NoSnapshot
    /\ thr = [t \in 1..MaxThreads |-> Idle]
    /\ reader = ReaderIdle
    /\ sim = NoSim
    /\ adapter = NoAdapter
    /\ an = NoAnalytics

\* run_simulation up to the first message of initiate_chat (lines 212-262).
\* create_expert_panel sits outside the try block: its ValueError escapes.
Sim_Start ==
    /\ mgr.state = "ready"
    /\ sim.state = "NotStarted"
    /\ \E panel_ok \in BOOLEAN, n \in 0..MaxExperts :
         IF ~panel_ok
         THEN sim' = [sim EXCEPT !.state = "Raised",
                                 !.result = [NoResult EXCEPT !.kind = "exception"]]
         ELSE LET started ==
                    [sim EXCEPT !.state = "Running",
                                !.roster = AllAgents(n),
                                !.max_round = MaxRound(cfg),
                                !.api_type = AgentApiType(cfg),
                                !.messages = << [name |-> "coordinator",
                                                 generated |-> FALSE] >>]
              IN  sim' = IF ChatContinues(started) THEN started
                         ELSE Completed(started, mgr)
    /\ UNCHANGED <<adapter, an, cfg, env, mgr, attempts, returned, last, snap, thr, reader>>

\* one pass of the group chat loop: the next speaker is asked for a reply
Sim_Turn ==
    /\ sim.state = "Running"
    /\ LET speaker == NextSpeaker(sim.roster, sim.messages)
       IN  IF ~GeneratesReply(speaker)
           THEN \* reply is None: the chat ends
                sim' = Completed(sim, mgr)
           ELSE \E reply_ok \in BOOLEAN :
                  IF ~reply_ok
                  THEN sim' = [sim EXCEPT !.state = "Failed",
                                          !.result = ErrorResult]
                  ELSE LET spoken ==
                             [sim EXCEPT !.messages =
                                            Append(@, [name |-> speaker,
                                                       generated |-> TRUE]),
                                         !.generated = @ + 1]
                       IN  sim' = IF ChatContinues(spoken) THEN spoken
                                  ELSE Completed(spoken, mgr)
    /\ UNCHANGED <<adapter, an, cfg, env, mgr, attempts, returned, last, snap, thr, reader>>

NextSim == Sim_Start \/ Sim_Turn

SpecSim == InitSim /\ [][NextSim]_vars

\* C2 (as claimed): after a session in which k turns produced generated
\* content, the session's LLMManager has call_count = k and the analytics
\* snapshot written for the session reflects those k calls.
RepliesGoThroughManager ==
    sim.state = "Completed" =>
      /\ mgr.call_count = sim.generated
      /\ sim.result.analytics.total_calls = sim.generated
      /\ (sim.generated > 0 => sim.result.analytics.token_usage.total_tokens > 0)

\* C4 (as claimed): roster [coordinator, moderator, expert_1, expert_2] and
\* a ceiling of 6 give exactly 6 transcript entries, in cyclic roster order.
SixEntriesInCyclicOrder ==
    (/\ sim.state = "Completed"
     /\ Len(sim.roster) = 4
     /\ sim.max_round = 6)
    => sim.result.transcript =
          <<"coordinator", "Moderator", "expert_1", "expert_2",
            "coordinator", "Moderator">>

\* C5 (as claimed): a call failing on turn 3 of a 6-turn run gives a failed
\* result that carries the 2 entries completed before, and the accumulator
\* reflects the calls that succeeded before it.
FailedRunKeepsTranscript ==
    (/\ sim.state = "Failed"
     /\ sim.max_round = 6
     /\ Len(sim.messages) = 2)
    => /\ sim.result.kind = "error"
       /\ Len(sim.result.transcript) = 2
       /\ mgr.call_count = sim.generated

\* C14 (as stated): a run that met a failure, in the construction of its
\* participants or during a turn, has returned the structured error result;
\* nothing was raised out of run_simulation and no summary was returned.
FailureYieldsErrorResult ==
    sim.state \in {"Raised", "Failed"} => sim.result.kind = "error"

\* the turns run one after the other in one thread: a running chat takes
\* its next step
SpecSimFair == SpecSim /\ WF_vars(NextSim)

Terminal == sim.state \in {"Completed", "Failed"}

\* C23: a running discussion ends Completed or Failed; it never records
\* more messages, nor generates more replies, than max_round (MAX_ROUNDS,
\* or 8 when unset); a failed reply makes it Failed at once; once Completed
\* or Failed nothing more is scheduled.
RunTerminatesWithinCeiling ==
    /\ [](sim.state # "NotStarted" /\ sim.state # "Raised" =>
            /\ Len(sim.messages) <= sim.max_round
            /\ sim.generated < sim.max_round
            /\ sim.max_round = (IF cfg.MAX_ROUNDS = 0 THEN DefaultMaxRounds
                                ELSE cfg.MAX_ROUNDS))
    /\ (sim.state = "Running") ~> Terminal
    /\ [][Terminal => sim' = sim]_vars
    /\ [][sim'.state = "Failed" =>
            sim.state = "Running" /\ sim'.messages = sim.messages]_vars

\* C23 witness: a chat of five agents was stopped by a ceiling of 3
StoppedByCeiling ==
    /\ sim.state = "Completed"
    /\ Len(sim.roster) = 5
    /\ sim.max_round = 3
    /\ Len(sim.messages) = 3
    /\ sim.generated = 2

\* C24: the only message under the coordinator's name is the seed, which is
\* not generated; every generated message belongs to another agent, and the
\* coordinator's turn in the round-robin adds no message.
CoordinatorNeverGenerates ==
    /\ \A i \in DOMAIN sim.messages :
         /\ sim.messages[i].name = "coordinator" =>
               i = 1 /\ ~sim.messages[i].generated
         /\ sim.messages[i].generated => sim.messages[i].name # "coordinator"
    /\ sim.generated
         = Cardinality({i \in DOMAIN sim.messages : sim.messages[i].generated})
    /\ sim.generated
         = Cardinality({i \in DOMAIN sim.messages :
                           sim.messages[i].name # "coordinator"})

\* C24 witness: the round-robin came back to the coordinator before the
\* ceiling, and the chat ended with the seed as its only message
CoordinatorTurnCameUp ==
    /\ sim.state = "Completed"
    /\ Len(sim.roster) = 3
    /\ Len(sim.messages) = 3
    /\ sim.max_round > 3
    /\ sim.messages[1].name = "coordinator"

\* C27 (as stated): in a session whose LLMManager was constructed, the
\* backend the agents are bound to is a provider registered in it.
AgentsBoundToRegisteredProvider ==
    (mgr.state = "ready" /\ sim.api_type # None) =>
        sim.api_type \in Registered(mgr.providers)

(* ---------------------------------------------------------------------- *)
(* SpecAdapter: one adapter, and TokenUsage values, called on their own    *)
(* ---------------------------------------------------------------------- *)
Models(id) ==
    IF id = "openai" THEN {"gpt-4o", "gpt-3.5-turbo", "unknown-model"}
    ELSE {"claude-3-5-sonnet-20241022", "claude-3-haiku-20240307",
          "unknown-model"}

Contents == {<<>>, <<"w">>, <<"w", " ">>}

Messages == {Msg(r, c) : r \in {"system", "user", "assistant"}, c \in Contents}

\* the canonical message lists of one to MaxMsgs messages
MessageLists ==
    UNION {[1..n -> Messages] : n \in 1..MaxMsgs}

\* what the vendor may answer, with or without a usage report
AdapterBackends ==
    {BackendError}
    \cup { [ok |-> TRUE, text |-> t, reports_usage |-> u,
            prompt_tokens |-> 5, completion_tokens |-> 2, total_tokens |-> 7]
           : t \in {<<"w">>, <<" ", "w">>}, u \in BOOLEAN }

Usages == {TokenUsage(p, c, t) : p \in 0..MaxTok, c \in 0..MaxTok, t \in 0..MaxTok}

\* token counts handed to estimate_cost, in tenths of a token
CostInputs ==
    {TokenUsage(0, 0, 0), TokenUsage(13, 26, 39),
     TokenUsage(1000 * TenthsPerToken, 500 * TenthsPerToken,
                1500 * TenthsPerToken)}

Adapter(id, model, tiktoken) ==
    [NoAdapter EXCEPT !.provider = id, !.model = model, !.tiktoken = tiktoken]

\* OpenAIProvider(...) or AnthropicProvider(...) has been constructed
InitAdapter ==
    /\ cfg = SharedConfig
    /\ env = SharedEnv
    /\ mgr = NoManager
    /\ attempts = 0
    /\ returned = <<>>
    /\ last = NoLast
    /\ snap = NoSnapshot
    /\ thr = [t \in 1..MaxThreads |-> Idle]
    /\ reader = ReaderIdle
    /\ sim = NoSim
    /\ an = NoAnalytics
    /\ \E id \in {"openai", "anthropic"}, tiktoken \in BOOLEAN :
         \E model \in Models(id) :
           adapter = Adapter(id, model, tiktoken)

Self == Adapter(adapter.provider, adapter.model, adapter.tiktoken)

\* an adapter keeps its client, model and pricing and nothing of a call, so
\* every call is examined on the adapter as constructed
Fresh == adapter.op = "none"

\* provider.generate(messages)
A_Generate ==
    /\ Fresh
    /\ \E messages \in MessageLists, backend \in AdapterBackends :
         adapter' = [Self EXCEPT
                       !.op = "generate", !.messages = messages,
                       !.backend = backend,
                       !.request =
                          IF adapter.provider = "openai"
                          THEN OpenAI_api_params(messages)
                          ELSE Anthropic_api_params(messages),
                       !.response =
                          IF adapter.provider = "openai"
                          THEN OpenAI_generate(adapter.model, messages, backend)
                          ELSE Anthropic_generate(adapter.model, messages, backend)]
    /\ UNCHANGED <<cfg, env, mgr, attempts, returned, last, snap, thr, reader,
                   sim, an>>

\* provider.estimate_cost(tokens)
A_EstimateCost ==
    /\ Fresh
    /\ \E tokens \in CostInputs :
         adapter' = [Self EXCEPT
                       !.op = "estimate_cost", !.tokens = tokens,
                       !.cost =
                          IF adapter.provider = "openai"
                          THEN OpenAI_estimate_cost(adapter.model, tokens)
                          ELSE Anthropic_estimate_cost(adapter.model, tokens)]
    /\ UNCHANGED <<cfg, env, mgr, attempts, returned, last, snap, thr, reader,
                   sim, an>>

\* provider.count_tokens(text)
A_CountTokens ==
    /\ Fresh
    /\ \E text \in Contents \cup {<<"w", " ", "w">>}, encoded \in {1, 3} :
         adapter' = [Self EXCEPT
                       !.op = "count_tokens", !.text = text,
                       !.count =
                          IF adapter.provider = "openai"
                          THEN OpenAI_count_tokens(text, adapter.tiktoken, encoded)
                          ELSE Anthropic_count_tokens(text)]
    /\ UNCHANGED <<cfg, env, mgr, attempts, returned, last, snap, thr, reader,
                   sim, an>>

\* (a + b) + c on TokenUsage values
A_Add ==
    /\ Fresh
    /\ \E a \in Usages, b \in Usages, c \in Usages :
         adapter' = [Self EXCEPT
                       !.op = "add", !.a = a, !.b = b, !.c = c,
                       !.sum = TokenUsage_add(TokenUsage_add(a, b), c)]
    /\ UNCHANGED <<cfg, env, mgr, attempts, returned, last, snap, thr, reader,
                   sim, an>>

NextAdapter == A_Generate \/ A_EstimateCost \/ A_CountTokens \/ A_Add

SpecAdapter == InitAdapter /\ [][NextAdapter]_vars

\* C12 (as stated): when the backend's response reports usage, the result
\* of generate carries exactly the reported prompt and completion counts.
ReportedUsageIsVerbatim ==
    (adapter.op = "generate" /\ adapter.response.ok
       /\ adapter.backend.reports_usage) =>
        /\ adapter.response.tokens.prompt_tokens
             = adapter.backend.prompt_tokens * TenthsPerToken
        /\ adapter.response.tokens.completion_tokens
             = adapter.backend.completion_tokens * TenthsPerToken

WholeTokens(n) == n >= 0 /\ n % TenthsPerToken = 0

\* C13 (as stated): every count in the TokenUsage of a generate result is a
\* non-negative whole number of tokens.
TokenCountsAreWholeTokens ==
    (adapter.op = "generate" /\ adapter.response.ok) =>
        /\ WholeTokens(adapter.response.tokens.prompt_tokens)
        /\ WholeTokens(adapter.response.tokens.completion_tokens)
        /\ WholeTokens(adapter.response.tokens.total_tokens)

\* the pricing table of an adapter and the entry it designates as default
PricingOf(id) == IF id = "openai" THEN OpenAIPricing ELSE AnthropicPricing

DefaultModelOf(id) ==
    IF id = "openai" THEN "gpt-4o" ELSE "claude-3-5-sonnet-20241022"

\* C18: estimate_cost always returns; for a model missing from the pricing
\* table the cost is prompt/1000 * default input rate + completion/1000 *
\* default output rate, with the rates of the adapter's default model (so
\* 1000 prompt and 500 completion tokens cost 1 * input + 0.5 * output), and
\* for a model in the table the cost uses that model's own rates.
UnknownModelUsesDefaultPricing ==
    adapter.op = "estimate_cost" =>
        LET table == PricingOf(adapter.provider)
            rates == IF adapter.model \in DOMAIN table THEN table[adapter.model]
                     ELSE table[DefaultModelOf(adapter.provider)]
        IN  /\ adapter.cost
                 = adapter.tokens.prompt_tokens * rates.input
                   + adapter.tokens.completion_tokens * rates.output
            /\ (adapter.tokens.prompt_tokens = 1000 * TenthsPerToken
                /\ adapter.tokens.completion_tokens = 500 * TenthsPerToken) =>
                   2 * adapter.cost
                     = 1000 * TenthsPerToken * (2 * rates.input + rates.output)

\* C18 witness: the OpenAI adapter of an unknown model has priced 1000
\* prompt and 500 completion tokens at the gpt-4o rates, 0.0075 USD
UnknownModelPriced ==
    /\ adapter.op = "estimate_cost"
    /\ adapter.provider = "openai"
    /\ adapter.model = "unknown-model"
    /\ adapter.tokens.prompt_tokens = 1000 * TenthsPerToken
    /\ adapter.tokens.completion_tokens = 500 * TenthsPerToken
    /\ adapter.cost = 7500000

AnalyticsConfigs ==
    [OPENAI_API_KEY : {TRUE}, ANTHROPIC_API_KEY : {TRUE},
     PRIMARY_PROVIDER : {"unset", "openai"},
     OPENAI_MODEL : {"gpt-4o"},
     ANTHROPIC_MODEL : {"claude-3-5-sonnet-20241022"},
     MAX_ROUNDS : {0}]

\* what the vendor may answer to a request of the session
AnalyticsBackends(id) ==
    IF id = "openai"
    THEN {BackendError,
          [ok |-> TRUE, text |-> <<"w">>, reports_usage |-> TRUE,
           prompt_tokens |-> 3000, completion_tokens |-> 1000,
           total_tokens |-> 4000]}
    ELSE {BackendError, [ok |-> TRUE, text |-> <<"w", " ", "w">>]}

\* seconds that may pass between two steps of the session
ClockSteps == {50, 70}

\* time.time() - self.session_start
Elapsed == an.now - an.session_start

\* LLMManager(config) has been constructed: session_start = time.time()
InitAnalytics ==
    /\ cfg \in AnalyticsConfigs
    /\ env = SharedEnv
    /\ mgr = LLMManager_init(cfg, env)
    /\ attempts = 0
    /\ returned = <<>>
    /\ last = NoLast
    /\ snap = NoSnapshot
    /\ thr = [t \in 1..MaxThreads |-> Idle]
    /\ reader = ReaderIdle
    /\ sim = NoSim
    /\ adapter = NoAdapter
    /\ an = NoAnalytics

\* time passes
Tick ==
    /\ \E d \in ClockSteps :
         /\ Elapsed + d <= MaxElapsed
         /\ an' = [an EXCEPT !.now = an.now + d]
    /\ UNCHANGED <<adapter, cfg, env, mgr, attempts, returned, last, snap, thr,
                   reader, sim>>

\* llm_manager.generate(messages)
An_Generate ==
    /\ attempts < MaxCalls
    /\ \E backend \in AnalyticsBackends(
                        ResolveProvider(cfg, mgr.providers, None).provider) :
         LET g == LLMManager_generate(mgr, cfg, None,
                                      << Msg("user", <<"w">>) >>, backend)
         IN  /\ mgr' = g.mgr
             /\ returned' = IF g.response.ok
                            THEN Append(returned, g.response)
                            ELSE returned
             /\ last' = [op |-> "generate", ok |-> g.response.ok,
                         requested |-> None, used |-> g.used,
                         notices |-> g.notices,
                         adapter_calls |-> g.adapter_calls,
                         requests |-> g.requests,
                         error |-> IF g.response.ok THEN NoError
                                   ELSE g.response.error,
                         backend |-> backend]
    /\ attempts' = attempts + 1
    /\ UNCHANGED <<adapter, an, cfg, env, snap, thr, reader, sim>>

\* llm_manager.get_analytics()
An_GetAnalytics ==
    /\ an.reads < MaxReads
    /\ an' = [an EXCEPT
                !.reads = an.reads + 1,
                !.shots = Append(an.shots,
                                 [at |-> attempts,
                                  analytics |-> AnalyticsAt(mgr, cfg, Elapsed)])]
    /\ UNCHANGED <<adapter, cfg, env, mgr, attempts, returned, last, snap, thr,
                   reader, sim>>

\* llm_manager.save_analytics(output_path)
An_SaveAnalytics ==
    /\ an.reads < MaxReads
    /\ LET s == LLMManager_save_analytics(mgr, cfg, Elapsed)
       IN  /\ mgr' = s.mgr
           /\ an' = [an EXCEPT
                       !.reads = an.reads + 1,
                       !.shots = Append(an.shots,
                                        [at |-> attempts,
                                         analytics |-> s.analytics]),
                       !.file = s.file]
    /\ UNCHANGED <<adapter, cfg, env, attempts, returned, last, snap, thr,
                   reader, sim>>

NextAnalytics == Tick \/ An_Generate \/ An_GetAnalytics \/ An_SaveAnalytics

SpecAnalytics == InitAnalytics /\ [][NextAnalytics]_vars

\* pairs of get_analytics results with no generate call made between them
QuietPairs ==
    {p \in (DOMAIN an.shots) \X (DOMAIN an.shots) :
        p[1] < p[2] /\ an.shots[p[1]].at = an.shots[p[2]].at}

AnalyticsArePureReads ==
    [][ /\ an'.reads # an.reads =>
              /\ mgr' = mgr
              /\ an'.session_start = an.session_start
        /\ (mgr' # mgr \/ an'.session_start # an.session_start) =>
              /\ last'.op = "generate"
              /\ last'.ok
              /\ attempts' = attempts + 1
              /\ Len(returned') = Len(returned) + 1
              /\ an' = an ]_vars

\* C16 witness: after a successful call the analytics were read and saved,
\* and the accumulator still holds that call
ReadAndSavedAfterCall ==
    /\ mgr.call_count >= 1
    /\ Len(an.shots) >= 2
    /\ an.file.taken
    /\ an.file.total_calls = mgr.call_count
    /\ an.shots[1].analytics.total_calls = mgr.call_count

\* the latest get_analytics result, when no generate call was made since
LatestIsCurrent ==
    /\ an.shots # <<>>
    /\ an.shots[Len(an.shots)].at = attempts

Latest == an.shots[Len(an.shots)].analytics

\* the divisors of the two averages, in the units of the model
PerCallDivisor == CostUnitsPerRounded * Max(mgr.call_count, 1)

PerKiloTokenDivisor ==
    (CostUnitsPerRounded \div TenthsPerKiloToken)
      * Max(mgr.total_usage.total_tokens, TenthsPerKiloToken)

ZeroCallsZeroMetrics ==
    mgr.call_count = 0 =>
        /\ Latest.total_cost_usd = 0
        /\ Latest.average_cost_per_call = 0
        /\ Latest.estimated_cost_per_1k_tokens = 0
        /\ Latest.calls_per_minute = 0
        /\ Latest.tokens_per_minute = 0

\* C17 (as stated): the reported average cost per call equals total_cost /
\* max(call_count, 1), the reported cost per 1000 tokens equals total_cost /
\* max(total_tokens / 1000, 1), and with zero calls every metric is 0.
AveragesAreExact ==
    LatestIsCurrent =>
        /\ Latest.average_cost_per_call * PerCallDivisor = mgr.total_cost
        /\ Latest.estimated_cost_per_1k_tokens * PerKiloTokenDivisor
             = mgr.total_cost
        /\ ZeroCallsZeroMetrics

Abs(x) == IF x >= 0 THEN x ELSE -x

\* C17 (amended): get_analytics returns for every accumulator and elapsed
\* time; the reported average cost per call is total_cost / max(call_count,
\* 1) rounded to 4 decimals and the reported cost per 1000 tokens is
\* total_cost / max(total_tokens / 1000, 1) rounded to 4 decimals, each
\* within half of 0.0001 of the quotient; with zero calls every metric is 0.
AveragesAreRounded ==
    LatestIsCurrent =>
        /\ Latest.taken
        /\ 2 * Abs(Latest.average_cost_per_call * PerCallDivisor
                   - mgr.total_cost) <= PerCallDivisor
        /\ 2 * Abs(Latest.estimated_cost_per_1k_tokens * PerKiloTokenDivisor
                   - mgr.total_cost) <= PerKiloTokenDivisor
        /\ ZeroCallsZeroMetrics

\* C17 witness: one call of 4000 tokens and 0.0175 USD is reported with a
\* cost per 1000 tokens of 0.0044, the rounding of 0.004375
RoundedCostPerKiloToken ==
    /\ LatestIsCurrent
    /\ mgr.call_count = 1
    /\ mgr.total_cost = 17500000
    /\ Latest.average_cost_per_call = 175
    /\ Latest.estimated_cost_per_1k_tokens = 44

\* a occurs in b as a run of consecutive characters
IsInfix(a, b) ==
    \E i \in 0..(Len(b) - Len(a)) : SubSeq(b, i + 1, i + Len(a)) = a

IsSystem(m) == m.role = "system"

IsInline(m) == m.role # "system"

\* C25 (as stated): the request of the Anthropic adapter carries every
\* non-system message inline in the original order, and the content of
\* every system message of the list in its system parameter.
ExtractionLosesNothing ==
    (adapter.op = "generate" /\ adapter.provider = "anthropic") =>
        /\ adapter.request.messages = SelectSeq(adapter.messages, IsInline)
        /\ \A i \in DOMAIN adapter.messages :
             IsSystem(adapter.messages[i]) =>
                /\ adapter.request.has_system
                /\ IsInfix(adapter.messages[i].content, adapter.request.system)

====
